---- MODULE Spec2Model ----
(***************************************************************************)
(* Model of tutorial_full.py, the natural-language-to-SQL gateway:         *)
(* detect_table -> get_schema_for_question -> generate_sql -> (gate) ->    *)
(* db.fetch_all, served by the two routes /generate-sql and /execute-sql.  *)
(*                                                                         *)
(* A python str is modelled as a sequence of one-character strings, so     *)
(* that strip, lower, startswith, replace and `in` are computed character  *)
(* by character, as the interpreter computes them.                         *)
(***************************************************************************)
EXTENDS Integers, Sequences, FiniteSets, TLC

VARIABLES
    catalog,    \* information_schema: set of [schema, name, cols]
    data,       \* version of the database's user data (bumped by a write)
    http_str,   \* how the installed framework renders str(HTTPException)
    loop,       \* request whose handler occupies the event-loop thread, 0 = free
    pc,         \* per request: where its handler is
    mode,       \* per request: "generate" | "execute"
    question,   \* per request: payload.question
    calls,      \* per request: external calls made so far, in order
    table,      \* per request: detect_table's return value
    schema,     \* per request: get_schema_for_question's return value
    content,    \* per request: response.choices[0].message.content
    sql,        \* per request: generate_sql's return value
    e,          \* per request: the exception caught by the route's except clause
    response,   \* per request: what the caller receives
    stmt,       \* Safety Gate study: the statement under test
    verdict,    \* Safety Gate study: "unchecked" | "approved" | "rejected"
    fence,      \* clean-up study: the parts of a fenced completion
    cleaned,    \* clean-up study: [done, text]
    ask,        \* resolver study: the question
    resolved    \* resolver study: [done, rows, res]

vars == <<catalog, data, http_str, loop, pc, mode, question, calls, table, schema,
          content, sql, e, response, stmt, verdict, fence, cleaned, ask, resolved>>

pipeline_vars == <<catalog, data, http_str, loop, pc, mode, question, calls, table,
                   schema, content, sql, e, response>>

study_vars == <<stmt, verdict, fence, cleaned, ask, resolved>>

----------------------------------------------------------------------------
(* Bounds of the model. *)

\* Requests in flight on the server at once.
NumRequests == 2

\* Longest run of whitespace put around a statement or a completion.
MaxPad == 1

\* Most tables a catalog of the resolver study holds in the public schema.
MaxTables == 2

Requests == 1..NumRequests

----------------------------------------------------------------------------
(* python str methods *)

\* Characters str.strip() removes (the ASCII ones that occur here).
Whitespace == {" ", "\n", "\t"}

\* The grave accent, the character code fences are made of.
BACKTICK == "grave"

UpperAlpha == <<"A", "B", "C", "D", "E", "F", "G", "H", "I", "J", "K", "L", "M",
                "N", "O", "P", "Q", "R", "S", "T", "U", "V", "W", "X", "Y", "Z">>

LowerAlpha == <<"a", "b", "c", "d", "e", "f", "g", "h", "i", "j", "k", "l", "m",
                "n", "o", "p", "q", "r", "s", "t", "u", "v", "w", "x", "y", "z">>

lower_char(c) ==
    IF \E i \in 1..26 : UpperAlpha[i] = c
    THEN LowerAlpha[CHOOSE i \in 1..26 : UpperAlpha[i] = c]
    ELSE c

RECURSIVE lower(_)
\* str.lower()
lower(s) == IF s = <<>> THEN <<>> ELSE <<lower_char(Head(s))>> \o lower(Tail(s))

RECURSIVE lstrip(_)
lstrip(s) == IF s # <<>> /\ Head(s) \in Whitespace THEN lstrip(Tail(s)) ELSE s

RECURSIVE rstrip(_)
rstrip(s) ==
    IF s # <<>> /\ s[Len(s)] \in Whitespace THEN rstrip(SubSeq(s, 1, Len(s) - 1)) ELSE s

\* str.strip()
strip(s) == rstrip(lstrip(s))

\* str.startswith(prefix)
startswith(s, prefix) == Len(s) >= Len(prefix) /\ SubSeq(s, 1, Len(prefix)) = prefix

\* python `sub in s` on two str
contains(s, sub) ==
    \E i \in 1..(Len(s) - Len(sub) + 1) : SubSeq(s, i, i + Len(sub) - 1) = sub

RECURSIVE replace(_, _)
\* str.replace(old, ""): every non-overlapping occurrence of old, left to right
replace(s, old) ==
    IF Len(s) < Len(old) THEN s
    ELSE IF startswith(s, old) THEN replace(SubSeq(s, Len(old) + 1, Len(s)), old)
    ELSE <<Head(s)>> \o replace(Tail(s), old)

RECURSIVE join(_, _)
\* sep.join(items), the items being rendered as single tokens
join(items, sep) ==
    IF items = <<>> THEN <<>>
    ELSE IF Len(items) = 1 THEN <<items[1]>>
    ELSE <<items[1]>> \o sep \o join(Tail(items), sep)

\* All orders in which a result set without ORDER BY can list the set S.
Orderings(S) ==
    {s \in [1..Cardinality(S) -> S] : \A i, j \in 1..Cardinality(S) : i # j => s[i] # s[j]}

----------------------------------------------------------------------------
(* Exceptions and responses *)

NoError == [type |-> "none", status_code |-> 0, detail |-> "", matches |-> <<>>]

\* fastapi.HTTPException(status_code, detail); matches is the list the detail embeds
HTTPException(status_code, detail, matches) ==
    [type |-> "HTTPException", status_code |-> status_code, detail |-> detail,
     matches |-> matches]

\* An exception raised by the database driver or by the completion client.
ExternalError(type, message) ==
    [type |-> type, status_code |-> 0, detail |-> message, matches |-> <<>>]

\* What the driver reports when a query fails, be it a catalog query or the
\* synthesized statement.
DatabaseMessages == {"connection refused"}

\* What the completion call raises: an error of the client, or the AttributeError
\* of `.strip()` on an answer without content.
CompletionErrors ==
    {ExternalError("OpenAIError", "rate limit"),
     ExternalError("AttributeError", "'NoneType' object has no attribute 'strip'")}

CouldNotDetect == "Could not detect table. Matches: "

OnlySelect == "Only SELECT statements are allowed"

\* str(e) in the except clauses.  An exception of the driver or the client renders
\* its message.  HTTPException renders "<status_code>: <detail>" where the framework
\* defines __str__, and "" where it does not (its constructor passes no args on).
str(exc) ==
    IF exc.type = "HTTPException"
    THEN IF http_str = "status_detail"
         THEN [status |-> exc.status_code, text |-> exc.detail, matches |-> exc.matches]
         ELSE [status |-> 0, text |-> "", matches |-> <<>>]
    ELSE [status |-> 0, text |-> exc.detail, matches |-> <<>>]

NoDetail == [prefix |-> "", str |-> [status |-> 0, text |-> "", matches |-> <<>>]]

NoResponse ==
    [status_code |-> 0, model |-> "none", sql |-> <<>>, rows |-> <<>>, detail |-> NoDetail]

QueryResponse(s) ==
    [status_code |-> 200, model |-> "QueryResponse", sql |-> s, rows |-> <<>>,
     detail |-> NoDetail]

ExecuteResponse(s, rows) ==
    [status_code |-> 200, model |-> "ExecuteResponse", sql |-> s, rows |-> rows,
     detail |-> NoDetail]

\* The HTTPException a route lets escape: the framework answers with its status
\* code and its detail.
ErrorResponse(status_code, prefix, rendered) ==
    [status_code |-> status_code, model |-> "HTTPException", sql |-> <<>>, rows |-> <<>>,
     detail |-> [prefix |-> prefix, str |-> rendered]]

\* The except clause of the route serving mode m.
route_except(m, exc) ==
    IF m = "generate"
    THEN ErrorResponse(500, "", str(exc))
    ELSE ErrorResponse(500, "Query failed: ", str(exc))

----------------------------------------------------------------------------
(* The pipeline's functions *)

\* Rows of: SELECT table_name FROM information_schema.tables WHERE table_schema = 'public'
public_tables(cat) == {t.name : t \in {u \in cat : u.schema = "public"}}

detect_table_first_match(q, rows) ==
    LET candidates == SelectSeq(rows, LAMBDA n : contains(lower(q), lower(n)))
    IN  IF Len(candidates) >= 1
        THEN [ok |-> TRUE, table |-> candidates[1], exc |-> NoError]
        ELSE [ok |-> FALSE, table |-> <<>>,
              exc |-> HTTPException(400, CouldNotDetect, candidates)]

\* detect_table after its query returned rows
detect_table(q, rows) ==
    LET candidates == SelectSeq(rows, LAMBDA n : contains(lower(q), lower(n)))
    IN  IF Len(candidates) = 1
        THEN [ok |-> TRUE, table |-> candidates[1], exc |-> NoError]
        ELSE [ok |-> FALSE, table |-> <<>>,
              exc |-> HTTPException(400, CouldNotDetect, candidates)]

\* Rows of information_schema.columns WHERE table_name = :table, every schema included
column_rows(cat, t) ==
    UNION {{[schema |-> u.schema, pos |-> i, column_name |-> u.cols[i]] :
                i \in 1..Len(u.cols)} : u \in {v \in cat : v.name = t}}

\* The orders ORDER BY ordinal_position allows (rows of equal position in any order)
ordered_column_rows(cat, t) ==
    {s \in Orderings(column_rows(cat, t)) :
        \A i, j \in 1..Len(s) : i < j => s[i].pos <= s[j].pos}

\* The dict get_schema_for_question returns
schema_info(t, cols) ==
    [table_name |-> t, columns |-> [i \in 1..Len(cols) |-> cols[i].column_name]]

NoSchema == [table_name |-> <<>>, columns |-> <<>>]

\* The f-string of generate_sql; the literal text is kept as whole segments.
prompt(q, sch) ==
    <<"You are a helpful assistant that generates SQL queries. Given the table ", BACKTICK>>
    \o sch.table_name \o <<BACKTICK, " and its columns: ">>
    \o join(sch.columns, <<",", " ">>) \o <<" and the user's question: ">>
    \o q \o <<" Produce ONLY the SQL query, no explanation.">>

FenceSql == <<BACKTICK, BACKTICK, BACKTICK, "s", "q", "l">>

Fence == <<BACKTICK, BACKTICK, BACKTICK>>

clean_no_final_strip(text) == replace(replace(strip(text), FenceSql), Fence)

\* generate_sql's return expression applied to the message content
clean(text) == strip(replace(replace(strip(text), FenceSql), Fence))

Select == <<"s", "e", "l", "e", "c", "t">>

isReadOnly_no_strip(s) == startswith(lower(s), Select)

\* The condition of execute_sql_route's gate
isReadOnly(s) == startswith(lower(strip(s)), Select)


after_synthesis_generate_executes(m, s) ==
    IF m = "execute" /\ ~isReadOnly(s)
    THEN [next |-> "raise", stmt |-> <<>>]
    ELSE [next |-> "execute", stmt |-> s]

after_synthesis_no_gate(m, s) ==
    IF m = "generate"
    THEN [next |-> "return", stmt |-> <<>>]
    ELSE [next |-> "execute", stmt |-> s]

after_synthesis_runs_normalised(m, s) ==
    IF m = "generate"
    THEN [next |-> "return", stmt |-> <<>>]
    ELSE IF ~isReadOnly(s)
         THEN [next |-> "raise", stmt |-> <<>>]
         ELSE [next |-> "execute", stmt |-> lower(strip(s))]

\* What a route does with generate_sql's result s: generate_sql_route returns it,
\* execute_sql_route raises unless the gate passes and otherwise sends it to the
\* database.
after_synthesis(m, s) ==
    IF m = "generate"
    THEN [next |-> "return", stmt |-> <<>>]
    ELSE IF ~isReadOnly(s)
         THEN [next |-> "raise", stmt |-> <<>>]
         ELSE [next |-> "execute", stmt |-> s]

----------------------------------------------------------------------------
(* Inputs of the pipeline *)

Modes == {"generate", "execute"}

Orders == <<"o", "r", "d", "e", "r", "s">>

Customers == <<"c", "u", "s", "t", "o", "m", "e", "r", "s">>

OrdersTable == [schema |-> "public", name |-> Orders, cols |-> <<"id", "total">>]

CustomersTable == [schema |-> "public", name |-> Customers, cols |-> <<"id", "name">>]

\* A table named like a public one, in a second schema of the same database.
ArchivedOrders == [schema |-> "archive", name |-> Orders, cols |-> <<"id">>]

Catalogs ==
    {{OrdersTable, CustomersTable}, {OrdersTable, CustomersTable, ArchivedOrders}}

Questions == {<<"c", "o", "u", "n", "t", " ", "O", "r", "d", "e", "r", "s">>, <<"h", "e", "l", "l", "o">>, <<"o", "r", "d", "e", "r", "s", " ", "o", "f", " ", "c", "u", "s", "t", "o", "m", "e", "r", "s">>}

\* Message contents the completion service may answer with.
Completions ==
    {<<"S", "E", "L", "E", "C", "T", " ", "1">>,
     <<BACKTICK, BACKTICK, BACKTICK, "s", "q", "l", "\n", "s", "e", "l", "e", "c", "t", " ", "n", "e", "x", "t", "v", "a", "l", "(", "'", "s", "'", ")", "\n", BACKTICK, BACKTICK, BACKTICK>>,
     <<"D", "E", "L", "E", "T", "E", " ", "F", "R", "O", "M", " ", "o", "r", "d", "e", "r", "s">>}

\* The statements among them that write when the database runs them.
Writing == {<<"s", "e", "l", "e", "c", "t", " ", "n", "e", "x", "t", "v", "a", "l", "(", "'", "s", "'", ")">>, <<"D", "E", "L", "E", "T", "E", " ", "F", "R", "O", "M", " ", "o", "r", "d", "e", "r", "s">>}

\* The user data after the database ran statement s.
run(s, d) == IF s \in Writing THEN d + 1 ELSE d

RowSets == {<<"row">>}

Call(kind, arg) == [kind |-> kind, arg |-> arg]

----------------------------------------------------------------------------
(* The request pipeline on the event loop *)

StudyIdle ==
    /\ stmt = <<>>
    /\ verdict = "unchecked"
    /\ fence = <<>>
    /\ cleaned = [done |-> FALSE, text |-> <<>>]
    /\ ask = <<>>
    /\ resolved = [done |-> FALSE, rows |-> <<>>, res |-> [ok |-> FALSE, table |-> <<>>, exc |-> NoError]]

PipelineIdle ==
    /\ data = 0
    /\ loop = 0
    /\ pc = [r \in Requests |-> "idle"]
    /\ mode = [r \in Requests |-> "generate"]
    /\ question = [r \in Requests |-> <<>>]
    /\ calls = [r \in Requests |-> <<>>]
    /\ table = [r \in Requests |-> <<>>]
    /\ schema = [r \in Requests |-> NoSchema]
    /\ content = [r \in Requests |-> <<>>]
    /\ sql = [r \in Requests |-> <<>>]
    /\ e = [r \in Requests |-> NoError]
    /\ response = [r \in Requests |-> NoResponse]

Init ==
    /\ catalog \in Catalogs
    /\ http_str \in {"empty", "status_detail"}
    /\ PipelineIdle
    /\ StudyIdle

\* The except clause of r's route catches exc: the request ends.
Fail(r, exc) ==
    /\ e' = [e EXCEPT ![r] = exc]
    /\ response' = [response EXCEPT ![r] = route_except(mode[r], exc)]
    /\ pc' = [pc EXCEPT ![r] = "done"]

\* A request arrives: its route runs up to the first await, detect_table's query.
Receive(r) ==
    /\ pc[r] = "idle"
    /\ loop = 0
    /\ \E m \in Modes, q \in Questions :
        /\ mode' = [mode EXCEPT ![r] = m]
        /\ question' = [question EXCEPT ![r] = q]
    /\ calls' = [calls EXCEPT ![r] = <<Call("list_tables", <<>>)>>]
    /\ pc' = [pc EXCEPT ![r] = "await_tables"]
    /\ UNCHANGED <<catalog, data, http_str, loop, table, schema, content, sql, e, response>>
    /\ UNCHANGED study_vars

\* detect_table's query raises.
TablesFail(r) ==
    /\ pc[r] = "await_tables"
    /\ loop = 0
    /\ \E msg \in DatabaseMessages : Fail(r, ExternalError("DatabaseError", msg))
    /\ UNCHANGED <<catalog, data, http_str, loop, mode, question, calls, table, schema,
                   content, sql>>
    /\ UNCHANGED study_vars

\* detect_table's query returns: detect_table finishes, and on one match
\* get_schema_for_question runs up to its own query.
TablesReturn(r) ==
    /\ pc[r] = "await_tables"
    /\ loop = 0
    /\ \E rows \in Orderings(public_tables(catalog)) :
        LET res == detect_table(question[r], rows)
        IN  IF res.ok
            THEN /\ table' = [table EXCEPT ![r] = res.table]
                 /\ calls' = [calls EXCEPT ![r] = Append(@, Call("list_columns", res.table))]
                 /\ pc' = [pc EXCEPT ![r] = "await_columns"]
                 /\ UNCHANGED <<e, response>>
            ELSE /\ Fail(r, res.exc)
                 /\ UNCHANGED <<table, calls>>
    /\ UNCHANGED <<catalog, data, http_str, loop, mode, question, schema, content, sql>>
    /\ UNCHANGED study_vars

\* get_schema_for_question's query raises.
ColumnsFail(r) ==
    /\ pc[r] = "await_columns"
    /\ loop = 0
    /\ \E msg \in DatabaseMessages : Fail(r, ExternalError("DatabaseError", msg))
    /\ UNCHANGED <<catalog, data, http_str, loop, mode, question, calls, table, schema,
                   content, sql>>
    /\ UNCHANGED study_vars

\* get_schema_for_question's query returns: the route calls generate_sql, which
\* builds the prompt and calls openai.ChatCompletion.create, a plain (blocking)
\* call made on the event-loop thread.
ColumnsReturn(r) ==
    /\ pc[r] = "await_columns"
    /\ loop = 0
    /\ \E cols \in ordered_column_rows(catalog, table[r]) :
        LET sch == schema_info(table[r], cols)
        IN  /\ schema' = [schema EXCEPT ![r] = sch]
            /\ calls' = [calls EXCEPT ![r] =
                            Append(@, Call("completion", prompt(question[r], sch)))]
    /\ pc' = [pc EXCEPT ![r] = "in_completion"]
    /\ loop' = r
    /\ UNCHANGED <<catalog, data, http_str, mode, question, table, content, sql, e, response>>
    /\ UNCHANGED study_vars

\* The completion call raises, or its answer has no usable content.
CompletionFail(r) ==
    /\ pc[r] = "in_completion"
    /\ loop = r
    /\ \E exc \in CompletionErrors : Fail(r, exc)
    /\ loop' = 0
    /\ UNCHANGED <<catalog, data, http_str, mode, question, calls, table, schema,
                   content, sql>>
    /\ UNCHANGED study_vars

\* The completion call returns: generate_sql cleans the content, and the route
\* returns it (generate), raises (gate) or runs up to `await db.fetch_all(sql)`.
CompletionReturn(r) ==
    /\ pc[r] = "in_completion"
    /\ loop = r
    /\ \E text \in Completions :
        LET s == clean(text)
            then == after_synthesis(mode[r], s)
        IN  /\ content' = [content EXCEPT ![r] = text]
            /\ sql' = [sql EXCEPT ![r] = s]
            /\ CASE then.next = "return" ->
                        /\ response' = [response EXCEPT ![r] = QueryResponse(s)]
                        /\ pc' = [pc EXCEPT ![r] = "done"]
                        /\ UNCHANGED <<e, calls>>
                 [] then.next = "raise" ->
                        /\ Fail(r, HTTPException(400, OnlySelect, <<>>))
                        /\ UNCHANGED calls
                 [] then.next = "execute" ->
                        /\ calls' = [calls EXCEPT ![r] = Append(@, Call("execute", then.stmt))]
                        /\ pc' = [pc EXCEPT ![r] = "await_execute"]
                        /\ UNCHANGED <<e, response>>
    /\ loop' = 0
    /\ UNCHANGED <<catalog, data, http_str, mode, question, table, schema>>
    /\ UNCHANGED study_vars

\* The database rejects the statement or fails while running it.
ExecuteFail(r) ==
    /\ pc[r] = "await_execute"
    /\ loop = 0
    /\ \E msg \in DatabaseMessages : Fail(r, ExternalError("DatabaseError", msg))
    /\ UNCHANGED <<catalog, data, http_str, loop, mode, question, calls, table, schema,
                   content, sql>>
    /\ UNCHANGED study_vars

\* The database ran the statement (which may have written) and returns its rows.
ExecuteReturn(r) ==
    /\ pc[r] = "await_execute"
    /\ loop = 0
    /\ \E rows \in RowSets :
        response' = [response EXCEPT ![r] = ExecuteResponse(sql[r], rows)]
    /\ data' = run(calls[r][Len(calls[r])].arg, data)
    /\ pc' = [pc EXCEPT ![r] = "done"]
    /\ UNCHANGED <<catalog, http_str, loop, mode, question, calls, table, schema,
                   content, sql, e>>
    /\ UNCHANGED study_vars

\* Any step of request r's handler.
Step(r) ==
    \/ Receive(r)
    \/ TablesFail(r)
    \/ TablesReturn(r)
    \/ ColumnsFail(r)
    \/ ColumnsReturn(r)
    \/ CompletionFail(r)
    \/ CompletionReturn(r)
    \/ ExecuteFail(r)
    \/ ExecuteReturn(r)

Next == \E r \in Requests : Step(r)

Spec == Init /\ [][Next]_vars


----------------------------------------------------------------------------
(* Vocabulary of the properties *)

Failed(r) == pc[r] = "done" /\ response[r].model = "HTTPException"

\* The completion service answered request r and generate_sql returned.
Synthesized(r) == content[r] # <<>>

CallsOfKind(r, kind) == {i \in 1..Len(calls[r]) : calls[r][i].kind = kind}

\* The taxonomy kind of the failure that ended request r.
Kind(r) ==
    CASE e[r].type = "HTTPException" /\ e[r].detail = CouldNotDetect ->
            "AmbiguousOrUnknownTable"
      [] e[r].type = "HTTPException" /\ e[r].detail = OnlySelect -> "UnsafeStatement"
      [] e[r].type = "DatabaseError" /\ CallsOfKind(r, "execute") = {} ->
            "CatalogUnavailable"
      [] e[r].type = "DatabaseError" /\ CallsOfKind(r, "execute") # {} ->
            "QueryExecutionFailed"
      [] OTHER -> "SynthesisFailed"

ExpectedCalls == <<"list_tables", "list_columns", "completion", "execute">>

----------------------------------------------------------------------------
(* Properties of the request pipeline (specification Spec) *)

\* C1: in execute mode a statement reaches the database only if it passed the
\* read-only check, and a request whose statement fails the check ends with the
\* UnsafeStatement error (the 400 the gate raises) and without any execution call.
C1_UnsafeStatementEndsRequest ==
    \A r \in Requests :
        /\ (mode[r] = "execute" /\ CallsOfKind(r, "execute") # {}) => isReadOnly(sql[r])
        /\ (mode[r] = "execute" /\ pc[r] = "done" /\ Synthesized(r) /\ ~isReadOnly(sql[r]))
            => /\ response[r].status_code = 400
               /\ CallsOfKind(r, "execute") = {}

\* C5: every failed request is reported as one of the five kinds in a way that
\* tells the kinds apart (two failures of different kinds never give the caller
\* the same result), and the report carries the message or the candidate list.
\* Stated for the framework that renders str(HTTPException) with its detail, the
\* case most favourable to the claim.
C5_FailuresToldApart ==
    http_str = "status_detail" =>
        /\ \A r1, r2 \in Requests :
            (Failed(r1) /\ Failed(r2) /\ Kind(r1) # Kind(r2))
                => response[r1] # response[r2]
        /\ \A r \in Requests :
            Failed(r) => /\ response[r].detail.str.text = e[r].detail
                         /\ response[r].detail.str.matches = e[r].matches

\* C6: a generate request makes no execution call (its only database calls are
\* the two catalog queries, each once) and no step of it changes the data.
C6_GenerateNeverExecutes ==
    /\ [](\A r \in Requests :
            mode[r] = "generate" =>
                /\ CallsOfKind(r, "execute") = {}
                /\ Cardinality(CallsOfKind(r, "list_tables")) <= 1
                /\ Cardinality(CallsOfKind(r, "list_columns")) <= 1
                /\ \A i \in 1..Len(calls[r]) :
                    calls[r][i].kind \in {"list_tables", "list_columns", "completion"})
    /\ [][\A r \in Requests :
            (mode'[r] = "generate" /\ pc'[r] # pc[r]) => data' = data]_vars

\* C6 witness: a generate request returned a synthesized DELETE, after the two
\* catalog queries and the completion call.
C6_Witness ==
    \E r \in Requests :
        /\ mode[r] = "generate"
        /\ pc[r] = "done"
        /\ response[r] = QueryResponse(<<"D", "E", "L", "E", "T", "E", " ", "F", "R", "O", "M", " ", "o", "r", "d", "e", "r", "s">>)
        /\ Len(calls[r]) = 3

\* C7: a request waiting in any of its I/O calls, the completion call included,
\* has released the event loop, so every other unfinished request can take its
\* next step.
C7_OthersProgressDuringIO ==
    \A r \in Requests :
        pc[r] \in {"await_tables", "await_columns", "in_completion", "await_execute"}
            => /\ loop # r
               /\ \A o \in Requests \ {r} : pc[o] # "done" => ENABLED Step(o)

\* C8: the SchemaInfo built for a question names a table of the public schema and
\* lists exactly that table's columns, in ordinal order.
C8_SchemaIsOneTable ==
    \A r \in Requests :
        schema[r] # NoSchema =>
            \E t \in catalog :
                /\ t.schema = "public"
                /\ t.name = schema[r].table_name
                /\ schema[r].columns = t.cols

\* C9: an execute request's external calls are a prefix of list tables, list
\* columns of the resolved table, completion, execution, each at most once; the
\* execution call is made only for a statement the gate approves; and once a step
\* has failed the request is Failed and makes no further call.
C9_CallsArePrefix ==
    /\ [](\A r \in Requests :
            mode[r] = "execute" =>
                /\ Len(calls[r]) <= Len(ExpectedCalls)
                /\ \A i \in 1..Len(calls[r]) : calls[r][i].kind = ExpectedCalls[i]
                /\ Len(calls[r]) >= 2 => calls[r][2].arg = table[r]
                /\ Len(calls[r]) = 4 => isReadOnly(sql[r])
                /\ e[r] # NoError => Failed(r))
    /\ [][\A r \in Requests :
            (mode[r] = "execute" /\ e[r] # NoError)
                => (calls'[r] = calls[r] /\ Failed(r)')]_vars

\* C9 witness: an execute request ended Failed at the gate, after exactly the
\* first three calls.
C9_Witness ==
    \E r \in Requests :
        /\ mode[r] = "execute"
        /\ Failed(r)
        /\ e[r] = HTTPException(400, OnlySelect, <<>>)
        /\ Len(calls[r]) = 3

\* C10: in a successful execute request the statement sent to the database, the
\* statement the gate approved and the sql of the result are the same string,
\* the cleaned completion.
C10_OneStatement ==
    \A r \in Requests :
        (pc[r] = "done" /\ response[r].model = "ExecuteResponse")
            => /\ Len(calls[r]) = 4
               /\ calls[r][4] = Call("execute", sql[r])
               /\ isReadOnly(calls[r][4].arg)
               /\ response[r].sql = calls[r][4].arg
               /\ sql[r] = clean(content[r])

\* C10 witness: an execute request succeeded on a fenced completion.
C10_Witness ==
    \E r \in Requests :
        /\ pc[r] = "done"
        /\ response[r].model = "ExecuteResponse"
        /\ content[r] = <<BACKTICK, BACKTICK, BACKTICK, "s", "q", "l", "\n", "s", "e", "l", "e", "c", "t", " ", "n", "e", "x", "t", "v", "a", "l", "(", "'", "s", "'", ")", "\n", BACKTICK, BACKTICK, BACKTICK>>
        /\ response[r].sql = <<"s", "e", "l", "e", "c", "t", " ", "n", "e", "x", "t", "v", "a", "l", "(", "'", "s", "'", ")">>


----------------------------------------------------------------------------
(* Study of the Safety Gate (specification SpecGate): the gate's condition *)
(* applied to statements put together from padding, a first word and a rest. *)

\* Runs of whitespace of length 0..MaxPad.
Pads == UNION {[1..n -> Whitespace] : n \in 0..MaxPad}

Heads ==
    {<<"S", "E", "L", "E", "C", "T">>, <<"s", "e", "l", "e", "c", "t">>, <<"S", "e", "L", "e", "C", "t">>, <<"S", "E", "L", "E", "C", "T", "E", "D">>, <<"s", "e", "l", "e", "c", "t", "s">>, <<"S", "E", "L", "E", "C">>,
     <<"I", "N", "S", "E", "R", "T">>, <<"U", "P", "D", "A", "T", "E">>, <<"D", "E", "L", "E", "T", "E">>, <<"D", "R", "O", "P">>, <<"W", "I", "T", "H">>, <<"-", "-", " ", "c", "\n", "D", "E", "L", "E", "T", "E">>,
     <<"/", "*", "*", "/", "S", "E", "L", "E", "C", "T">>, <<>>}

Rests == {<<>>, <<" ", "1">>, <<"*">>, <<"_", "x">>, <<";", "D", "R", "O", "P", " ", "T", "A", "B", "L", "E", " ", "t">>}

GateInputs ==
    {lead \o head \o rest \o trail :
        lead \in Pads, head \in Heads, rest \in Rests, trail \in Pads}

InitGate ==
    /\ catalog = {}
    /\ http_str = "status_detail"
    /\ PipelineIdle
    /\ stmt \in GateInputs
    /\ verdict = "unchecked"
    /\ fence = <<>>
    /\ cleaned = [done |-> FALSE, text |-> <<>>]
    /\ ask = <<>>
    /\ resolved = [done |-> FALSE, rows |-> <<>>, res |-> [ok |-> FALSE, table |-> <<>>, exc |-> NoError]]

\* The gate's `if` of execute_sql_route decides on stmt.
Gate ==
    /\ verdict = "unchecked"
    /\ verdict' = IF isReadOnly(stmt) THEN "approved" ELSE "rejected"
    /\ UNCHANGED <<stmt, fence, cleaned, ask, resolved>>
    /\ UNCHANGED pipeline_vars

NextGate == Gate

SpecGate == InitGate /\ [][NextGate]_vars

Digits == {"0", "1", "2", "3", "4", "5", "6", "7", "8", "9"}

\* Characters of a SQL word (keyword or identifier).
WordChars ==
    {UpperAlpha[i] : i \in 1..26} \cup {LowerAlpha[i] : i \in 1..26} \cup Digits \cup {"_"}

\* Number of leading whitespace characters of s.
LeadingBlanks(s) ==
    CHOOSE k \in 0..Len(s) :
        /\ \A i \in 1..k : s[i] \in Whitespace
        /\ k < Len(s) => s[k + 1] \notin Whitespace

\* The first token of s: the longest run of word characters after the leading
\* whitespace.
FirstToken(s) ==
    LET k == LeadingBlanks(s)
        n == CHOOSE m \in 0..(Len(s) - k) :
                /\ \A i \in 1..m : s[k + i] \in WordChars
                /\ k + m < Len(s) => s[k + m + 1] \notin WordChars
    IN  SubSeq(s, k + 1, k + n)

SelectLetters ==
    <<{"s", "S"}, {"e", "E"}, {"l", "L"}, {"e", "E"}, {"c", "C"}, {"t", "T"}>>

\* C2 as claimed: the gate approves exactly the statements whose first token,
\* compared case-insensitively, is the keyword SELECT.
C2_FirstTokenIsSelect ==
    verdict # "unchecked" =>
        (verdict = "approved" <=>
            /\ Len(FirstToken(stmt)) = 6
            /\ \A i \in 1..6 : FirstToken(stmt)[i] \in SelectLetters[i])

\* C2 as amended: the gate approves exactly the statements in which the six
\* characters after the leading whitespace are the letters s-e-l-e-c-t in either
\* case, whatever character follows them.
C2_BeginsWithSelect ==
    verdict # "unchecked" =>
        (verdict = "approved" <=>
            LET k == LeadingBlanks(stmt)
            IN  /\ Len(stmt) >= k + 6
                /\ \A i \in 1..6 : stmt[k + i] \in SelectLetters[i])

\* C2 witness: a padded statement whose first token is SELECTED was approved.
C2_Witness ==
    /\ verdict = "approved"
    /\ stmt = <<"\n", "S", "E", "L", "E", "C", "T", "E", "D", " ", "1">>

----------------------------------------------------------------------------
(* Study of generate_sql's clean-up (specification SpecClean): the return *)
(* expression applied to completions that wrap a SQL text in code fences.  *)

\* What may stand directly after the opening fence.
Tags == {<<>>, <<"s", "q", "l">>, <<"S", "Q", "L">>, <<"p", "o", "s", "t", "g", "r", "e", "s", "q", "l">>}

Gaps == {<<>>, <<"\n">>, <<" ">>}

\* SQL texts: trimmed, beginning with a keyword, and free of fence markers (a
\* single grave accent quotes an identifier in some dialects).
Bodies == {<<"S", "E", "L", "E", "C", "T", " ", "1">>, <<"s", "e", "l", "e", "c", "t", " ", "i", "d", "\n", "f", "r", "o", "m", " ", "o", "r", "d", "e", "r", "s">>, <<"S", "E", "L", "E", "C", "T", " ", "1", " ", "A", "S", " ", BACKTICK, "n", BACKTICK>>}

FencedInputs ==
    [lead : Pads, tag : Tags, gap : Gaps, body : Bodies, trail : Pads, tail : Pads]

\* The completion text the parts f make up.
Fenced(f) == f.lead \o Fence \o f.tag \o f.gap \o f.body \o f.trail \o Fence \o f.tail

InitClean ==
    /\ catalog = {}
    /\ http_str = "status_detail"
    /\ PipelineIdle
    /\ stmt = <<>>
    /\ verdict = "unchecked"
    /\ fence \in FencedInputs
    /\ cleaned = [done |-> FALSE, text |-> <<>>]
    /\ ask = <<>>
    /\ resolved = [done |-> FALSE, rows |-> <<>>, res |-> [ok |-> FALSE, table |-> <<>>, exc |-> NoError]]

\* generate_sql returns on the completion text made of the parts in fence.
Clean ==
    /\ ~cleaned.done
    /\ cleaned' = [done |-> TRUE, text |-> clean(Fenced(fence))]
    /\ UNCHANGED <<stmt, verdict, fence, ask, resolved>>
    /\ UNCHANGED pipeline_vars

NextClean == Clean

SpecClean == InitClean /\ [][NextClean]_vars

----------------------------------------------------------------------------
(* Study of detect_table (specification SpecResolve): the resolver applied to *)
(* questions and catalogs of up to MaxTables public tables.                   *)

TableNames == {Orders, Customers, <<"o", "r", "d", "e", "r">>, <<"I", "t", "e", "m", "s">>, <<"a">>}

\* A table outside the public schema, which the resolver's query does not list.
Invoices == [schema |-> "archive", name |-> <<"i", "n", "v", "o", "i", "c", "e", "s">>, cols |-> <<"id">>]

ResolverCatalogs ==
    {{[schema |-> "public", name |-> n, cols |-> <<"id">>] : n \in names} \cup other :
        names \in {N \in SUBSET TableNames : Cardinality(N) <= MaxTables},
        other \in {{}, {Invoices}}}

ResolverQuestions ==
    {<<"h", "o", "w", " ", "m", "a", "n", "y", " ", "o", "r", "d", "e", "r", "s">>, <<"O", "R", "D", "E", "R", "S", " ", "p", "e", "r", " ", "c", "u", "s", "t", "o", "m", "e", "r">>, <<"C", "u", "s", "t", "o", "m", "e", "r", "s", " ", "a", "n", "d", " ", "t", "h", "e", "i", "r", " ", "o", "r", "d", "e", "r", "s">>,
     <<"l", "i", "s", "t", " ", "I", "T", "E", "M", "S">>, <<"h", "e", "l", "l", "o">>, <<"i", "n", "v", "o", "i", "c", "e", "s">>, <<"r", "e", "o", "r", "d", "e", "r">>, <<>>}

InitResolve ==
    /\ catalog \in ResolverCatalogs
    /\ http_str = "status_detail"
    /\ PipelineIdle
    /\ stmt = <<>>
    /\ verdict = "unchecked"
    /\ fence = <<>>
    /\ cleaned = [done |-> FALSE, text |-> <<>>]
    /\ ask \in ResolverQuestions
    /\ resolved = [done |-> FALSE, rows |-> <<>>, res |-> [ok |-> FALSE, table |-> <<>>, exc |-> NoError]]

\* detect_table runs on the question ask: its query lists the public tables in
\* some order, and it returns or raises.
Resolve ==
    /\ ~resolved.done
    /\ \E rows \in Orderings(public_tables(catalog)) :
        resolved' = [done |-> TRUE, rows |-> rows, res |-> detect_table(ask, rows)]
    /\ UNCHANGED <<stmt, verdict, fence, cleaned, ask>>
    /\ UNCHANGED pipeline_vars

NextResolve == Resolve

SpecResolve == InitResolve /\ [][NextResolve]_vars

\* The letters a and b are the same up to case.
SameLetter(a, b) == lower_char(a) = lower_char(b)

\* name occurs in q, compared case-insensitively.
Occurs(name, q) ==
    \E i \in 0..(Len(q) - Len(name)) :
        \A k \in 1..Len(name) : SameLetter(q[i + k], name[k])

\* The listed tables whose name occurs in the question.
Matched == {n \in public_tables(catalog) : Occurs(n, ask)}

\* C3: detect_table returns t exactly when t is the only listed table whose name
\* occurs in the question, case-insensitively; otherwise it raises the 400 "Could
\* not detect table" error whose list holds exactly the matched names, each once.
C3_ResolveUniqueMatch ==
    resolved.done =>
        /\ resolved.res.ok <=> Cardinality(Matched) = 1
        /\ resolved.res.ok => Matched = {resolved.res.table}
        /\ ~resolved.res.ok =>
            /\ resolved.res.exc.type = "HTTPException"
            /\ resolved.res.exc.status_code = 400
            /\ resolved.res.exc.detail = CouldNotDetect
            /\ {resolved.res.exc.matches[i] : i \in 1..Len(resolved.res.exc.matches)}
                    = Matched
            /\ Len(resolved.res.exc.matches) = Cardinality(Matched)

\* C3 witness: a question naming two tables was refused with both as candidates.
C3_Witness ==
    /\ resolved.done
    /\ ask = <<"C", "u", "s", "t", "o", "m", "e", "r", "s", " ", "a", "n", "d", " ", "t", "h", "e", "i", "r", " ", "o", "r", "d", "e", "r", "s">>
    /\ ~resolved.res.ok
    /\ resolved.res.exc.matches = <<Orders, Customers>>

====
